---- MODULE Spec2Model ----
(***************************************************************************)
(* Model of axum-valid's validify support (src/src/validify.rs) and the    *)
(* capability impls for MsgPack / MsgPackRaw / Yaml (src/src/msgpack.rs,   *)
(* src/src/yaml.rs).                                                        *)
(*                                                                         *)
(* Every request runs one composed extraction (Validated, Modified,        *)
(* Validified or ValidifiedByRef, through from_request or                   *)
(* from_request_parts).  The inner extractor, the modification engine, the *)
(* validation engine and the response renderer are collaborators: the      *)
(* modification rule and the validation rule of the data type are drawn    *)
(* from all functions / all subsets over a small value domain, the inner   *)
(* extractor's outcome is drawn when it returns.                           *)
(***************************************************************************)
EXTENDS Integers, Sequences, FiniteSets, TLC

\* ---------------------------------------------------------------- bounds
MaxVal == 1

\* ---------------------------------------------------------------- domains
Reqs == {"r1", "r2"}
Solo == {"r1"}
Values == 0..MaxVal
\* a payload field is optional: Missing stands for an absent field
Missing == 0 - 1
Payloads == Values \cup {Missing}
\* failure values of the inner extractor (opaque to this layer)
Failures == {<<"unsupported_media_type", 415>>, <<"bad_request", 400>>}
Variants == {"Validated", "Modified", "Validified", "ValidifiedByRef"}
\* the inner extractors that read the body in a declared content type
Extractors == {"MsgPack", "MsgPackRaw", "Yaml"}
Entries == {"from_request", "from_request_parts"}

VARIABLES
    extractor,   \* the inner extractor type the handlers are written with
    ctype,       \* per request: its Content-Type header, "present" or "absent"
    rejresp,     \* per request: response conversion of the rejection
    modifyRule,  \* the data type's Modify::modify, a function on Values
    validRule,   \* the set of values the data type's Validate::validate accepts
    variant,     \* per request: which wrapper extractor was asked for
    entry,       \* per request: from_request or from_request_parts
    pc,          \* per request: position of the extraction
    inner,       \* per request: the local binding `inner` / `payload`
    inres,       \* per request: what the inner extractor returned
    vres,        \* per request: what validate() / validify() returned
    log,         \* per request: collaborator operations invoked, in order
    result,      \* per request: what the extraction returned to the caller
    resp         \* per request: response conversion of a Modified value

vars == <<extractor, ctype, rejresp, modifyRule, validRule, variant, entry, pc, inner, inres, vres, log, result, resp>>

\* ---------------------------------------------------------------- values
NoVal == <<>>
NoInres == [done |-> FALSE, ok |-> FALSE, val |-> <<>>, err |-> <<>>]
NoVres == [ok |-> TRUE, val |-> <<>>, err |-> <<>>]
NoResult == [kind |-> "none", wrapper |-> "none", held |-> <<>>,
             rtype |-> "none", tag |-> "none", cause |-> <<>>]
NoResp == [done |-> FALSE, given |-> <<>>, calls |-> <<>>, body |-> <<>>]
NoRejResp == [done |-> FALSE, status |-> 0]

\* ---------------------------------------------------------------- collaborators
\* validify::Modify::modify on the data type: rewrites the value in place
Modify(v) == modifyRule[v]

\* validify::Validate::validate on the data type: Ok(()) or ValidationErrors
\* carrying the offending field value
Validate(v) ==
    IF v \in validRule
    THEN [ok |-> TRUE, val |-> <<>>, err |-> <<>>]
    ELSE [ok |-> FALSE, val |-> <<>>, err |-> <<"range", v>>]

\* validify::Validify::validify(payload): build the target from the payload
\* (a missing field is a validation error), modify it, validate it
Validify(p) ==
    IF p = Missing
    THEN [ok |-> FALSE, val |-> <<>>, err |-> <<"required", 0>>]
    ELSE LET m == Modify(p)
         IN  IF m \in validRule
             THEN [ok |-> TRUE, val |-> <<m>>, err |-> <<>>]
             ELSE [ok |-> FALSE, val |-> <<>>, err |-> <<"range", m>>]

\* the inner extractor's own IntoResponse: renders the held field
IntoResponse(x) == <<"body", x[1]>>

\* ---------------------------------------------------------------- capability contracts
\* HasValidate for MsgPack / MsgPackRaw / Yaml: &self.0
get_validate(x) == x[1]

\* HasModify for MsgPack / MsgPackRaw / Yaml: &mut self.0
get_modify(x) == x[1]

\* writing m through the mutable view returned by get_modify
set_modify(x, m) == [x EXCEPT ![1] = m]

\* PayloadExtractor::get_payload: hands the payload over by value
get_payload(x) == x[1]

\* HasValidify::from_validified: repackages the target into the extractor
from_validified(v) == <<v>>

\* ---------------------------------------------------------------- rejection
\* ValidifyRejection::Inner, as used in .map_err(ValidifyRejection::Inner)
RejInner(f) == [kind |-> "err", wrapper |-> "none", held |-> <<>>,
                rtype |-> "ValidifyRejection", tag |-> "Inner", cause |-> f]

\* variant of RejValid: the validation failure wrapped as Inner
RejValid_AsInner(e) ==
    [kind |-> "err", wrapper |-> "none", held |-> <<>>,
     rtype |-> "ValidifyRejection", tag |-> "Inner", cause |-> e]

\* impl From<ValidationErrors> for ValidifyRejection: Self::Valid(value)
RejValid(e) == [kind |-> "err", wrapper |-> "none", held |-> <<>>,
                rtype |-> "ValidifyRejection", tag |-> "Valid", cause |-> e]

\* Modified: type Rejection = <Extractor as FromRequest>::Rejection, the `?`
\* passes the inner extractor's failure on as it is
RejRaw(f) == [kind |-> "err", wrapper |-> "none", held |-> <<>>,
              rtype |-> "InnerRejection", tag |-> "none", cause |-> f]

\* Ok(Wrapper(inner))
Wrap(w, x) == [kind |-> "ok", wrapper |-> w, held |-> x,
               rtype |-> "none", tag |-> "none", cause |-> <<>>]

\* ---------------------------------------------------------------- the eight impls
\* Each impl is the list of stages it runs on the extracted value, how it
\* maps the inner extractor's failure, and the wrapper it builds.
ValidatedFromRequest ==
    [stages |-> <<"validate">>, inner_err |-> "Inner", wrapper |-> "Validated"]

ValidatedFromRequestParts ==
    [stages |-> <<"validate">>, inner_err |-> "Inner", wrapper |-> "Validated"]

ModifiedFromRequest ==
    [stages |-> <<"modify">>, inner_err |-> "raw", wrapper |-> "Modified"]

ModifiedFromRequestParts ==
    [stages |-> <<"modify">>, inner_err |-> "raw", wrapper |-> "Modified"]

ValidifiedFromRequest ==
    [stages |-> <<"validify">>, inner_err |-> "Inner", wrapper |-> "Validified"]

ValidifiedFromRequestParts ==
    [stages |-> <<"validify">>, inner_err |-> "Inner", wrapper |-> "Validified"]

\* variant of ValidifiedByRefFromRequest: validation runs before modification
ValidifiedByRefFromRequest_ValidateFirst ==
    [stages |-> <<"validate", "modify">>, inner_err |-> "Inner", wrapper |-> "ValidifiedByRef"]

\* variant of ValidifiedByRefFromRequest: the map_err is missing
ValidifiedByRefFromRequest_NoMapErr ==
    [stages |-> <<"modify", "validate">>, inner_err |-> "raw", wrapper |-> "ValidifiedByRef"]

ValidifiedByRefFromRequest ==
    [stages |-> <<"modify", "validate">>, inner_err |-> "Inner", wrapper |-> "ValidifiedByRef"]

\* variant of ValidifiedByRefFromRequestParts: the modify call is missing
ValidifiedByRefFromRequestParts_NoModify ==
    [stages |-> <<"validate">>, inner_err |-> "Inner", wrapper |-> "ValidifiedByRef"]

ValidifiedByRefFromRequestParts ==
    [stages |-> <<"modify", "validate">>, inner_err |-> "Inner", wrapper |-> "ValidifiedByRef"]

Impl(v, e) ==
    CASE v = "Validated" /\ e = "from_request" -> ValidatedFromRequest
      [] v = "Validated" /\ e = "from_request_parts" -> ValidatedFromRequestParts
      [] v = "Modified" /\ e = "from_request" -> ModifiedFromRequest
      [] v = "Modified" /\ e = "from_request_parts" -> ModifiedFromRequestParts
      [] v = "Validified" /\ e = "from_request" -> ValidifiedFromRequest
      [] v = "Validified" /\ e = "from_request_parts" -> ValidifiedFromRequestParts
      [] v = "ValidifiedByRef" /\ e = "from_request" -> ValidifiedByRefFromRequest
      [] v = "ValidifiedByRef" /\ e = "from_request_parts" -> ValidifiedByRefFromRequestParts

\* what the inner (or payload-producing) extractor of an impl can return
InnerOutcomes(v) ==
    {[done |-> TRUE, ok |-> FALSE, val |-> <<>>, err |-> f] : f \in Failures}
    \cup {[done |-> TRUE, ok |-> TRUE, val |-> <<x>>, err |-> <<>>] :
            x \in IF v = "Validified" THEN Payloads ELSE Values}

\* ValidTest::ERROR_STATUS_CODE: the status of the inner extractor's response
\* to the request built by set_error_request
ERROR_STATUS_CODE(x) ==
    CASE x = "MsgPack" -> 400
      [] x = "MsgPackRaw" -> 400
      [] x = "Yaml" -> 415

\* ValidTest::set_error_request: the builder is returned as it came, the
\* request carries no Content-Type header
set_error_request == "absent"

\* ValidTest::set_valid_request / set_invalid_request: Content-Type is set
set_valid_request == "present"

\* the inner extractor's failure on a request without Content-Type
MissingContentType(x) == <<"missing_content_type", ERROR_STATUS_CODE(x)>>

\* what request r's inner extractor can return: without Content-Type only
\* the missing-content-type failure, else any outcome
Outcomes(r) ==
    IF ctype[r] = set_error_request
    THEN {[done |-> TRUE, ok |-> FALSE, val |-> <<>>, err |-> MissingContentType(extractor)]}
    ELSE InnerOutcomes(variant[r])

\* the stages of request r's impl that have run so far, and the one due next
StagesDone(r) == Len(log[r]) - 1

NextStage(r) ==
    LET s == Impl(variant[r], entry[r]).stages
    IN  IF StagesDone(r) < Len(s) THEN s[StagesDone(r) + 1] ELSE "return"

\* the `?` on the inner extractor's result: Validated / Validified /
\* ValidifiedByRef go through map_err(ValidifyRejection::Inner), Modified
\* returns the failure as it is
InnerErr(v, e, f) ==
    IF Impl(v, e).inner_err = "Inner" THEN RejInner(f) ELSE RejRaw(f)

\* ---------------------------------------------------------------- state
Init ==
    /\ extractor \in Extractors
    /\ ctype = [r \in Reqs |-> "none"]
    /\ rejresp = [r \in Reqs |-> NoRejResp]
    /\ modifyRule \in [Values -> Values]
    /\ validRule \in SUBSET Values
    /\ variant = [r \in Reqs |-> "none"]
    /\ entry = [r \in Reqs |-> "none"]
    /\ pc = [r \in Reqs |-> "Start"]
    /\ inner = [r \in Reqs |-> NoVal]
    /\ inres = [r \in Reqs |-> NoInres]
    /\ vres = [r \in Reqs |-> NoVres]
    /\ log = [r \in Reqs |-> <<>>]
    /\ result = [r \in Reqs |-> NoResult]
    /\ resp = [r \in Reqs |-> NoResp]

\* ---------------------------------------------------------------- extraction
\* The framework calls Wrapper::<Extractor>::from_request(_parts): the impl
\* calls the inner extractor and suspends on its future.
Begin(r) ==
    /\ pc[r] = "Start"
    /\ \E v \in Variants, e \in Entries :
          /\ variant' = [variant EXCEPT ![r] = v]
          /\ entry' = [entry EXCEPT ![r] = e]
    /\ \E c \in {set_valid_request, set_error_request} :
          ctype' = [ctype EXCEPT ![r] = c]
    /\ pc' = [pc EXCEPT ![r] = "ExtractingInner"]
    /\ log' = [log EXCEPT ![r] = <<"extract">>]
    /\ UNCHANGED <<extractor, rejresp, modifyRule, validRule, inner, inres, vres, result, resp>>

\* variant of InnerReturns: the future is polled again after it was dropped
InnerReturns_AfterDrop(r) ==
    /\ pc[r] \in {"ExtractingInner", "Dropped"}
    /\ \E o \in Outcomes(r) :
          /\ inres' = [inres EXCEPT ![r] = o]
          /\ IF o.ok
             THEN /\ inner' = [inner EXCEPT ![r] = o.val]
                  /\ pc' = [pc EXCEPT ![r] = "Extracted"]
                  /\ UNCHANGED result
             ELSE /\ result' = [result EXCEPT ![r] = InnerErr(variant[r], entry[r], o.err)]
                  /\ pc' = [pc EXCEPT ![r] = "FailedInner"]
                  /\ UNCHANGED inner
    /\ UNCHANGED <<extractor, ctype, rejresp, modifyRule, validRule, variant, entry, vres, log, resp>>

\* The inner extractor's future completes; on Err the `?` returns at once
\* (after map_err where the impl has one), on Ok the value is bound.
InnerReturns(r) ==
    /\ pc[r] = "ExtractingInner"
    /\ \E o \in Outcomes(r) :
          /\ inres' = [inres EXCEPT ![r] = o]
          /\ IF o.ok
             THEN /\ inner' = [inner EXCEPT ![r] = o.val]
                  /\ pc' = [pc EXCEPT ![r] = "Extracted"]
                  /\ UNCHANGED result
             ELSE /\ result' = [result EXCEPT ![r] = InnerErr(variant[r], entry[r], o.err)]
                  /\ pc' = [pc EXCEPT ![r] = "FailedInner"]
                  /\ UNCHANGED inner
    /\ UNCHANGED <<extractor, ctype, rejresp, modifyRule, validRule, variant, entry, vres, log, resp>>

\* The caller drops the future while it is suspended on the inner extractor.
Drop(r) ==
    /\ pc[r] = "ExtractingInner"
    /\ pc' = [pc EXCEPT ![r] = "Dropped"]
    /\ UNCHANGED <<extractor, ctype, rejresp, modifyRule, validRule, variant, entry, inner, inres, vres, log, result, resp>>

\* variant of ApplyModify: modify runs on a copy, `inner` keeps its value
ApplyModify_OnCopy(r) ==
    /\ pc[r] = "Extracted"
    /\ NextStage(r) = "modify"
    /\ log' = [log EXCEPT ![r] = Append(log[r], "modify")]
    /\ pc' = [pc EXCEPT ![r] = "ApplyingModify"]
    /\ UNCHANGED <<extractor, ctype, rejresp, modifyRule, validRule, variant, entry, inner, inres, vres, result, resp>>

\* variant of ApplyModify: the modified value is kept in one slot that every
\* extraction in flight reads its value from
ApplyModify_SharedSlot(r) ==
    /\ pc[r] = "Extracted"
    /\ NextStage(r) = "modify"
    /\ inner' = [o \in Reqs |-> IF inner[o] = NoVal THEN NoVal
                                ELSE <<Modify(get_modify(inner[r]))>>]
    /\ log' = [log EXCEPT ![r] = Append(log[r], "modify")]
    /\ pc' = [pc EXCEPT ![r] = "ApplyingModify"]
    /\ UNCHANGED <<extractor, ctype, rejresp, modifyRule, validRule, variant, entry, inres, vres, result, resp>>

\* inner.get_modify().modify()
ApplyModify(r) ==
    /\ pc[r] = "Extracted"
    /\ NextStage(r) = "modify"
    /\ inner' = [inner EXCEPT ![r] = set_modify(inner[r], Modify(get_modify(inner[r])))]
    /\ log' = [log EXCEPT ![r] = Append(log[r], "modify")]
    /\ pc' = [pc EXCEPT ![r] = "ApplyingModify"]
    /\ UNCHANGED <<extractor, ctype, rejresp, modifyRule, validRule, variant, entry, inres, vres, result, resp>>

\* inner.get_validate().validate()
ApplyValidate(r) ==
    /\ pc[r] \in {"Extracted", "ApplyingModify"}
    /\ NextStage(r) = "validate"
    /\ vres' = [vres EXCEPT ![r] = Validate(get_validate(inner[r]))]
    /\ log' = [log EXCEPT ![r] = Append(log[r], "validate")]
    /\ pc' = [pc EXCEPT ![r] = "ApplyingValidate"]
    /\ UNCHANGED <<extractor, ctype, rejresp, modifyRule, validRule, variant, entry, inner, inres, result, resp>>

\* variant of ApplyValidify: the target is built and validated, not modified
ApplyValidify_NoModify(r) ==
    /\ pc[r] = "Extracted"
    /\ NextStage(r) = "validify"
    /\ vres' = [vres EXCEPT ![r] =
                  LET p == get_payload(inner[r])
                  IN  IF p = Missing
                      THEN [ok |-> FALSE, val |-> <<>>, err |-> <<"required", 0>>]
                      ELSE IF p \in validRule
                           THEN [ok |-> TRUE, val |-> <<p>>, err |-> <<>>]
                           ELSE [ok |-> FALSE, val |-> <<>>, err |-> <<"range", p>>]]
    /\ inner' = [inner EXCEPT ![r] = NoVal]
    /\ log' = [log EXCEPT ![r] = Append(log[r], "validify")]
    /\ pc' = [pc EXCEPT ![r] = "ApplyingValidate"]
    /\ UNCHANGED <<extractor, ctype, rejresp, modifyRule, validRule, variant, entry, inres, result, resp>>

\* Extractor::Validify::validify(payload.get_payload())
ApplyValidify(r) ==
    /\ pc[r] = "Extracted"
    /\ NextStage(r) = "validify"
    /\ vres' = [vres EXCEPT ![r] = Validify(get_payload(inner[r]))]
    /\ inner' = [inner EXCEPT ![r] = NoVal]
    /\ log' = [log EXCEPT ![r] = Append(log[r], "validify")]
    /\ pc' = [pc EXCEPT ![r] = "ApplyingValidate"]
    /\ UNCHANGED <<extractor, ctype, rejresp, modifyRule, validRule, variant, entry, inres, result, resp>>

\* the value the wrapper is built around: `inner`, or for Validified
\* Extractor::from_validified(<the validified target>)
Held(r) ==
    IF Impl(variant[r], entry[r]).wrapper = "Validified"
    THEN from_validified(vres[r].val[1])
    ELSE inner[r]

\* variant of Return: the `?` is missing, the value is wrapped whatever the
\* validation said
Return_IgnoresVerdict(r) ==
    /\ pc[r] \in {"ApplyingModify", "ApplyingValidate"}
    /\ NextStage(r) = "return"
    /\ result' = [result EXCEPT ![r] =
                    Wrap(Impl(variant[r], entry[r]).wrapper,
                         IF vres[r].ok THEN Held(r) ELSE inner[r])]
    /\ pc' = [pc EXCEPT ![r] = "Succeeded"]
    /\ log' = [log EXCEPT ![r] =
                 IF vres[r].ok /\ Impl(variant[r], entry[r]).wrapper = "Validified"
                 THEN Append(log[r], "from_validified") ELSE log[r]]
    /\ UNCHANGED <<extractor, ctype, rejresp, modifyRule, validRule, variant, entry, inner, inres, vres, resp>>

\* variant of Return: a failed validation sends the extraction back to the
\* inner extractor
Return_Retries(r) ==
    /\ pc[r] \in {"ApplyingModify", "ApplyingValidate"}
    /\ NextStage(r) = "return"
    /\ IF vres[r].ok
       THEN /\ result' = [result EXCEPT ![r] = Wrap(Impl(variant[r], entry[r]).wrapper, Held(r))]
            /\ pc' = [pc EXCEPT ![r] = "Succeeded"]
       ELSE /\ UNCHANGED result
            /\ pc' = [pc EXCEPT ![r] = "ExtractingInner"]
    /\ log' = [log EXCEPT ![r] =
                 IF vres[r].ok /\ Impl(variant[r], entry[r]).wrapper = "Validified"
                 THEN Append(log[r], "from_validified") ELSE log[r]]
    /\ UNCHANGED <<extractor, ctype, rejresp, modifyRule, validRule, variant, entry, inner, inres, vres, resp>>

\* The `?` on the validation result and the final Ok(Wrapper(..)).
Return(r) ==
    /\ pc[r] \in {"ApplyingModify", "ApplyingValidate"}
    /\ NextStage(r) = "return"
    /\ IF vres[r].ok
       THEN /\ result' = [result EXCEPT ![r] = Wrap(Impl(variant[r], entry[r]).wrapper, Held(r))]
            /\ pc' = [pc EXCEPT ![r] = "Succeeded"]
       ELSE /\ result' = [result EXCEPT ![r] = RejValid(vres[r].err)]
            /\ pc' = [pc EXCEPT ![r] = "FailedValid"]
    /\ log' = [log EXCEPT ![r] =
                 IF vres[r].ok /\ Impl(variant[r], entry[r]).wrapper = "Validified"
                 THEN Append(log[r], "from_validified") ELSE log[r]]
    /\ UNCHANGED <<extractor, ctype, rejresp, modifyRule, validRule, variant, entry, inner, inres, vres, resp>>

\* ---------------------------------------------------------------- response
\* variant of ModifiedIntoResponse: the held value is rendered as it was given
ModifiedIntoResponse_RenderFirst(r) ==
    /\ pc[r] = "Succeeded"
    /\ ~resp[r].done
    /\ \E v \in Values :
          LET self0 == <<v>>
          IN  resp' = [resp EXCEPT ![r] =
                         [done |-> TRUE, given |-> self0,
                          calls |-> <<"into_response", "modify">>,
                          body |-> IntoResponse(self0)]]
    /\ UNCHANGED <<extractor, ctype, rejresp, modifyRule, validRule, variant, entry, pc, inner, inres, vres, log, result>>

\* impl IntoResponse for Modified<E>: the handler of a request whose
\* extraction succeeded returns Modified(x) and axum converts it.
ModifiedIntoResponse(r) ==
    /\ pc[r] = "Succeeded"
    /\ ~resp[r].done
    /\ \E v \in Values :
          LET self0 == <<v>>
              self1 == set_modify(self0, Modify(get_modify(self0)))
          IN  resp' = [resp EXCEPT ![r] =
                         [done |-> TRUE, given |-> self0,
                          calls |-> <<"modify", "into_response">>,
                          body |-> IntoResponse(self1)]]
    /\ UNCHANGED <<extractor, ctype, rejresp, modifyRule, validRule, variant, entry, pc, inner, inres, vres, log, result>>

\* the status ValidationRejection::into_response gives a validation failure
VALIDATION_ERROR_STATUS == 400

\* impl IntoResponse for ValidationRejection: Inner goes through the inner
\* extractor's own conversion and keeps its status, Valid is a client-data
\* error; a Modified extractor's failure is the inner rejection itself.
RejectionIntoResponse(r) ==
    /\ pc[r] \in {"FailedInner", "FailedValid"}
    /\ ~rejresp[r].done
    /\ rejresp' = [rejresp EXCEPT ![r] =
                     [done |-> TRUE,
                      status |-> IF result[r].tag = "Valid"
                                 THEN VALIDATION_ERROR_STATUS
                                 ELSE result[r].cause[2]]]
    /\ UNCHANGED <<extractor, ctype, modifyRule, validRule, variant, entry, pc, inner,
                   inres, vres, log, result, resp>>

\* ---------------------------------------------------------------- specifications
\* the steps of one extraction
Extraction(r) ==
    \/ Begin(r)
    \/ InnerReturns(r)
    \/ Drop(r)
    \/ ApplyModify(r)
    \/ ApplyValidate(r)
    \/ ApplyValidify(r)
    \/ Return(r)

\* the synchronous part of an extraction: the code after the .await, which
\* runs to its return within the poll that resumed it
Synchronous(r) ==
    \/ ApplyModify(r)
    \/ ApplyValidate(r)
    \/ ApplyValidify(r)
    \/ Return(r)

\* one request: its extraction, then its handler's Modified response
Next == \E r \in Solo : Extraction(r) \/ ModifiedIntoResponse(r) \/ RejectionIntoResponse(r)

Spec == Init /\ [][Next]_vars

SpecLive == Init /\ [][Next]_vars /\ \A r \in Solo : WF_vars(Synchronous(r))

\* extractions of different requests, interleaved step by step; the data
\* type's modification rule is one of the rotations of the value domain (the
\* identity among them), its validation rule any subset
Rotations == {[v \in Values |-> (v + k) % (MaxVal + 1)] : k \in Values}

InitConc == Init /\ modifyRule \in Rotations

NextConc == \E r \in Reqs : Extraction(r)

SpecConc == InitConc /\ [][NextConc]_vars

\* ---------------------------------------------------------------- properties
Terminal == {"FailedInner", "FailedValid", "Succeeded"}
Tagging == {"Validated", "Validified", "ValidifiedByRef"}

\* C1: in Validated, Validified and ValidifiedByRef (either entry point), when
\* the inner (or payload-producing) extractor fails with f, the extraction
\* ends in Failed(Inner) carrying exactly f, and no modify, validate or
\* validify operation was invoked.
C1_InnerFailurePassedUnchanged ==
    \A r \in Reqs :
        (variant[r] \in Tagging /\ inres[r].done /\ ~inres[r].ok) =>
            /\ pc[r] = "FailedInner"
            /\ result[r].kind = "err"
            /\ result[r].tag = "Inner"
            /\ result[r].cause = inres[r].err
            /\ log[r] = <<"extract">>

C1_Witness ==
    \E r \in Reqs :
        /\ variant[r] = "ValidifiedByRef"
        /\ pc[r] = "FailedInner"
        /\ inres[r].err = <<"bad_request", 400>>
        /\ result[r].cause = <<"bad_request", 400>>

\* C2: in Validated, Validified and ValidifiedByRef, when the inner extraction
\* succeeded and the validation stage reported the failure e, the extraction
\* ends in Failed(Valid) carrying e, never in Failed(Inner) or Succeeded.
C2_ValidationFailureIsValid ==
    \A r \in Reqs :
        (variant[r] \in Tagging /\ inres[r].ok /\ ~vres[r].ok) =>
            /\ pc[r] \in {"ApplyingValidate", "FailedValid"}
            /\ pc[r] = "ApplyingValidate" => result[r].kind = "none"
            /\ pc[r] = "FailedValid" =>
                  /\ result[r].kind = "err"
                  /\ result[r].tag = "Valid"
                  /\ result[r].cause = vres[r].err

C2_Witness ==
    \E r \in Reqs :
        /\ variant[r] = "ValidifiedByRef"
        /\ inres[r].ok
        /\ pc[r] = "FailedValid"
        /\ result[r].cause = <<"range", modifyRule[inres[r].val[1]]>>

\* C3 as stated: when the inner extractor succeeded with v and v passes
\* validation, the extraction ends in Succeeded holding v (Validated) or
\* modify(v) (Modified, ValidifiedByRef).
C3_AsStated ==
    \A r \in Reqs :
        (/\ variant[r] \in {"Validated", "Modified", "ValidifiedByRef"}
         /\ inres[r].ok
         /\ inres[r].val[1] \in validRule
         /\ pc[r] \in Terminal) =>
            /\ pc[r] = "Succeeded"
            /\ result[r].held =
                  IF variant[r] = "Validated"
                  THEN inres[r].val
                  ELSE <<modifyRule[inres[r].val[1]]>>

\* the value a variant hands to the validation engine, given the extracted v
Checked(w, v) == IF w = "ValidifiedByRef" THEN modifyRule[v] ELSE v

\* C3 amended: when the inner extractor succeeded with v and the value the
\* variant validates passes validation (v for Validated, modify(v) for
\* ValidifiedByRef, nothing for Modified), the extraction ends in Succeeded
\* holding v (Validated) or modify(v) (Modified, ValidifiedByRef); a wrapper
\* of these variants never holds another value.
C3_HeldValue ==
    \A r \in Reqs :
        (variant[r] \in {"Validated", "Modified", "ValidifiedByRef"} /\ inres[r].ok) =>
            LET v == inres[r].val[1]
                expected == IF variant[r] = "Validated" THEN <<v>> ELSE <<modifyRule[v]>>
                passes == variant[r] = "Modified" \/ Checked(variant[r], v) \in validRule
            IN  /\ (passes /\ pc[r] \in Terminal) =>
                      (pc[r] = "Succeeded" /\ result[r].kind = "ok" /\ result[r].held = expected)
                /\ result[r].kind = "ok" => result[r].held = expected

C3_Witness ==
    \E r \in Reqs :
        /\ variant[r] = "ValidifiedByRef"
        /\ pc[r] = "Succeeded"
        /\ inres[r].val[1] \notin validRule
        /\ result[r].held = <<modifyRule[inres[r].val[1]]>>
        /\ result[r].held # inres[r].val

\* the collaborator operations a variant must have completed before it wraps
Required(w) ==
    CASE w = "Validated" -> <<"extract", "validate">>
      [] w = "Modified" -> <<"extract", "modify">>
      [] w = "Validified" -> <<"extract", "validify", "from_validified">>
      [] w = "ValidifiedByRef" -> <<"extract", "modify", "validate">>

\* C4: a wrapper value has been constructed only if every stage its variant
\* requires has completed successfully; ValidifiedByRef never returns a value
\* that was modified and then failed validation.
C4_WrapperOnlyAfterAllStages ==
    \A r \in Reqs :
        result[r].kind = "ok" =>
            /\ pc[r] = "Succeeded"
            /\ result[r].wrapper = variant[r]
            /\ inres[r].ok
            /\ vres[r].ok
            /\ log[r] = Required(variant[r])
            /\ variant[r] \in Tagging => result[r].held[1] \in validRule

C4_Witness ==
    \E r \in Reqs :
        /\ variant[r] = "ValidifiedByRef"
        /\ result[r].kind = "ok"
        /\ result[r].held # inres[r].val
        /\ log[r] = <<"extract", "modify", "validate">>

\* C5 as stated: whenever Validated, Modified, Validified or ValidifiedByRef
\* fails, the failure returned is a ValidifyRejection whose variant (Inner or
\* Valid) names the stage that failed.
C5_TaggedRejection ==
    \A r \in Reqs :
        result[r].kind = "err" =>
            /\ result[r].rtype = "ValidifyRejection"
            /\ result[r].tag = IF pc[r] = "FailedInner" THEN "Inner" ELSE "Valid"

\* C6: in Validified a failure of the payload-producing extractor is always
\* Inner and a failure of validify is always Valid; from_validified is invoked
\* only after validify succeeded, on the value validify produced, and its
\* result is the value the wrapper holds.
C6_ValidifiedClassification ==
    \A r \in Reqs :
        variant[r] = "Validified" =>
            /\ (inres[r].done /\ ~inres[r].ok) =>
                  (pc[r] = "FailedInner" /\ result[r].tag = "Inner"
                   /\ result[r].cause = inres[r].err /\ log[r] = <<"extract">>)
            /\ (inres[r].ok /\ pc[r] \in Terminal) =>
                  LET p == inres[r].val[1]
                      passes == p # Missing /\ modifyRule[p] \in validRule
                  IN  IF passes
                      THEN /\ pc[r] = "Succeeded"
                           /\ log[r] = <<"extract", "validify", "from_validified">>
                           /\ result[r].held = <<modifyRule[p]>>
                      ELSE /\ pc[r] = "FailedValid"
                           /\ result[r].tag = "Valid"
                           /\ result[r].cause =
                                 IF p = Missing THEN <<"required", 0>>
                                 ELSE <<"range", modifyRule[p]>>
                           /\ log[r] = <<"extract", "validify">>
            /\ result[r].tag = "Inner" => ~inres[r].ok
            /\ result[r].tag = "Valid" => inres[r].ok

C6_Witness ==
    \E r \in Reqs :
        /\ variant[r] = "Validified"
        /\ pc[r] = "Succeeded"
        /\ result[r].held # inres[r].val
        /\ log[r] = <<"extract", "validify", "from_validified">>

\* C7: converting a Modified value into a response invokes modify on the held
\* value exactly once and before the held value's own conversion, so the
\* response is rendered from the modified value, never from the original.
C7_ResponseFromModifiedValue ==
    \A r \in Reqs :
        resp[r].done =>
            /\ resp[r].calls = <<"modify", "into_response">>
            /\ resp[r].body = <<"body", modifyRule[resp[r].given[1]]>>

C7_Witness ==
    \E r \in Reqs :
        /\ resp[r].done
        /\ modifyRule[resp[r].given[1]] # resp[r].given[1]
        /\ resp[r].body = <<"body", modifyRule[resp[r].given[1]]>>

\* the transitions of the extraction state machine
Edges ==
    {<<"Start", "ExtractingInner">>,
     <<"ExtractingInner", "FailedInner">>,
     <<"ExtractingInner", "Extracted">>,
     <<"ExtractingInner", "Dropped">>,
     <<"Extracted", "ApplyingModify">>,
     <<"Extracted", "ApplyingValidate">>,
     <<"ApplyingModify", "ApplyingValidate">>,
     <<"ApplyingModify", "Succeeded">>,
     <<"ApplyingValidate", "FailedValid">>,
     <<"ApplyingValidate", "Succeeded">>}

Occurrences(s, x) == Cardinality({i \in DOMAIN s : s[i] = x})

\* C8: every extraction moves along Start -> ExtractingInner ->
\* {Failed(Inner) | Extracted} -> ApplyingModify (optional) ->
\* ApplyingValidate (optional) -> {Failed(Valid) | Succeeded}; each stage runs
\* at most once, a terminal state is never left, and once the inner extractor
\* has completed the extraction reaches a terminal state.
C8_StateMachine ==
    /\ [][\A r \in Reqs :
            /\ pc'[r] # pc[r] => <<pc[r], pc'[r]>> \in Edges
            /\ pc[r] \in Terminal => (pc'[r] = pc[r] /\ result'[r] = result[r] /\ log'[r] = log[r])
            /\ \A x \in {"extract", "modify", "validate", "validify"} :
                  Occurrences(log'[r], x) <= 1]_vars
    /\ \A r \in Reqs : inres[r].done ~> pc[r] \in Terminal

C8_Witness ==
    \E r \in Reqs :
        /\ variant[r] = "ValidifiedByRef"
        /\ pc[r] = "FailedValid"
        /\ log[r] = <<"extract", "modify", "validate">>

\* C9: an extraction dropped while suspended in the inner extractor stays
\* dropped: no modify, validate or validify runs for it afterwards and no
\* wrapper value (or any result) is constructed for it.
C9_DroppedWithoutEffect ==
    [][\A r \in Reqs :
          (pc[r] = "Dropped" \/ pc'[r] = "Dropped") =>
              /\ pc'[r] = "Dropped"
              /\ log'[r] = <<"extract">>
              /\ result'[r] = NoResult
              /\ inner'[r] = NoVal
              /\ vres'[r] = NoVres
              /\ ~inres'[r].done]_vars

C9_Witness ==
    \E r \in Reqs :
        /\ variant[r] = "ValidifiedByRef"
        /\ pc[r] = "Dropped"
        /\ result[r].kind = "none"

\* what an impl returns for the inner outcome o when nothing else runs
Alone(w, e, o) ==
    IF ~o.ok THEN InnerErr(w, e, o.err)
    ELSE CASE w = "Validated" ->
                 IF Validate(o.val[1]).ok THEN Wrap(w, o.val)
                 ELSE RejValid(Validate(o.val[1]).err)
           [] w = "Modified" -> Wrap(w, <<Modify(o.val[1])>>)
           [] w = "Validified" ->
                 IF Validify(o.val[1]).ok THEN Wrap(w, from_validified(Validify(o.val[1]).val[1]))
                 ELSE RejValid(Validify(o.val[1]).err)
           [] w = "ValidifiedByRef" ->
                 IF Validate(Modify(o.val[1])).ok THEN Wrap(w, <<Modify(o.val[1])>>)
                 ELSE RejValid(Validate(Modify(o.val[1])).err)

\* C10: under every interleaving of concurrent extractions, the local value
\* and the outcome of each one are those it has when run alone: they depend
\* on its own variant and its own inner extractor's outcome only.
C10_Independent ==
    \A r \in Reqs :
        /\ pc[r] = "Extracted" => inner[r] = inres[r].val
        /\ pc[r] = "ApplyingModify" => inner[r] = <<modifyRule[inres[r].val[1]]>>
        /\ pc[r] \in Terminal => result[r] = Alone(variant[r], entry[r], inres[r])
        /\ pc[r] \notin Terminal => result[r] = NoResult

C10_Witness ==
    /\ variant["r1"] = "ValidifiedByRef"
    /\ variant["r2"] = "ValidifiedByRef"
    /\ pc["r1"] = "ApplyingModify"
    /\ pc["r2"] = "Succeeded"
    /\ inner["r1"] # result["r2"].held

\* C11 as stated: a request without Content-Type, routed to an inner
\* extractor that requires one (Yaml, MsgPack, MsgPackRaw), fails before any
\* validation runs, in Failed(Inner), and the response made of the rejection
\* is 415 Unsupported Media Type, a status other than the one validation
\* failures get.
C11_MissingContentTypeIs415 ==
    \A r \in Reqs :
        (ctype[r] = "absent" /\ inres[r].done) =>
            /\ pc[r] = "FailedInner"
            /\ log[r] = <<"extract">>
            /\ rejresp[r].done =>
                  /\ rejresp[r].status = 415
                  /\ rejresp[r].status # VALIDATION_ERROR_STATUS

\* C12: ValidifiedByRef modifies before it validates and validates the
\* modified value: with MsgPack, MsgPackRaw and Yaml, whose modify view and
\* validate view are the same field, it succeeds exactly when
\* validate(modify(v)) passes, whatever validate(v) says, and fails with
\* Failed(Valid) otherwise.
C12_ValidatesModifiedValue ==
    \A r \in Reqs :
        (variant[r] = "ValidifiedByRef" /\ inres[r].ok) =>
            LET v == inres[r].val[1]
                m == modifyRule[v]
            IN  /\ pc[r] = "ApplyingModify" =>
                      (inner[r] = <<m>> /\ log[r] = <<"extract", "modify">> /\ vres[r] = NoVres)
                /\ pc[r] = "ApplyingValidate" =>
                      (log[r] = <<"extract", "modify", "validate">> /\ vres[r].ok = (m \in validRule))
                /\ pc[r] \in Terminal =>
                      /\ log[r] = <<"extract", "modify", "validate">>
                      /\ pc[r] = "Succeeded" <=> m \in validRule
                      /\ pc[r] = "Succeeded" => result[r].held = <<m>>
                      /\ pc[r] # "Succeeded" =>
                            (pc[r] = "FailedValid" /\ result[r].tag = "Valid"
                             /\ result[r].cause = <<"range", m>>)

C12_Witness ==
    \E r \in Reqs :
        /\ variant[r] = "ValidifiedByRef"
        /\ inres[r].ok
        /\ inres[r].val[1] \in validRule
        /\ modifyRule[inres[r].val[1]] \notin validRule
        /\ pc[r] = "FailedValid"

IsPrefix(s, t) == Len(s) <= Len(t) /\ SubSeq(t, 1, Len(s)) = s

\* C13: for each variant the from_request pipeline and the from_request_parts
\* pipeline are equivalent: on inner extractors with the same outcome they
\* run the same stages in the same order and end in the same terminal state
\* with the same held value or the same rejection.
C13_EntryPointsEquivalent ==
    \A a, b \in Reqs :
        (/\ variant[a] # "none"
         /\ variant[a] = variant[b]
         /\ entry[a] = "from_request"
         /\ entry[b] = "from_request_parts"
         /\ inres[a].done
         /\ inres[a] = inres[b]) =>
            /\ IsPrefix(log[a], log[b]) \/ IsPrefix(log[b], log[a])
            /\ (pc[a] \in Terminal /\ pc[b] \in Terminal) => pc[a] = pc[b]
            /\ pc[a] = pc[b] =>
                  /\ log[a] = log[b]
                  /\ inner[a] = inner[b]
                  /\ vres[a] = vres[b]
                  /\ result[a] = result[b]

C13_Witness ==
    /\ variant["r1"] = "ValidifiedByRef"
    /\ variant["r2"] = "ValidifiedByRef"
    /\ entry["r1"] = "from_request"
    /\ entry["r2"] = "from_request_parts"
    /\ inres["r1"] = inres["r2"]
    /\ pc["r1"] = "Succeeded"
    /\ pc["r2"] = "Succeeded"
    /\ result["r1"].held # inres["r1"].val

====
